---- MODULE Spec2Model ----
\* Model of tensor_calc.py: parse_orca_output (the scan of the ORCA report),
\* convert_chi_tensor, calculate_traceless_tensor, calculate_eigenvalues and
\* process_orca_file (the range filter and the per-temperature computation).
\*
\* Numbers: a text token is a string; float() maps it to an integer through
\* FloatOf. Computed quantities are exact rationals <<n, d>> with d > 0 and
\* gcd(n, d) = 1; a numpy division by zero gives <<1, 0>> (inf), <<-1, 0>>
\* (-inf) or <<0, 0>> (nan). Floating-point rounding is not modelled.
EXTENDS Integers, Sequences, FiniteSets, TLC

VARIABLES
    file,          \* the report's content: a sequence of lines (token sequences)
    lines,         \* parse_orca_output: lines (f.readlines())
    i,             \* parse_orca_output: index of the line the loop is at (1-based)
    current_temp,  \* parse_orca_output: current_temp
    tensors,       \* parse_orca_output: tensors (a dict, in insertion order)
    proc_tensors,  \* process_orca_file: tensors; <<>> until parse returns, then <<dict>>
    min_temp,      \* process_orca_file: min_temp
    max_temp,      \* process_orca_file: max_temp
    results,       \* process_orca_file: results
    k,             \* process_orca_file: position of the loop in tensors.items() (1-based)
    returned,      \* what the caller of process_orca_file receives: <<>> or <<results>>
    exc,           \* the exception that ended the call, with the line that raised it
    pc             \* where the call is

vars == <<file, lines, i, current_temp, tensors, proc_tensors, min_temp,
          max_temp, results, k, returned, exc, pc>>

\* ------------------------------------------------------------------ bounds
\* The number of segments (sections, blocks, stray lines) a report is made of.
MaxSegs == 3

\* ------------------------------------------------------------------ rationals
RECURSIVE Gcd(_, _)
Gcd(a, b) == IF b = 0 THEN a ELSE Gcd(b, a % b)

IAbs(n) == IF n < 0 THEN -n ELSE n

\* n/d in lowest terms with a positive denominator (d # 0)
RNorm(n, d) ==
    LET g == Gcd(IAbs(n), IAbs(d))
        s == IF d < 0 THEN -1 ELSE 1
    IN  <<(s * n) \div g, (s * d) \div g>>

RInt(n) == <<n, 1>>
RAdd(a, b) == RNorm(a[1] * b[2] + b[1] * a[2], a[2] * b[2])
RSub(a, b) == RNorm(a[1] * b[2] - b[1] * a[2], a[2] * b[2])
RMul(a, b) == RNorm(a[1] * b[1], a[2] * b[2])
RLess(a, b) == a[1] * b[2] < b[1] * a[2]
RAbs(a) == <<IAbs(a[1]), a[2]>>
Inf == <<1, 0>>
NegInf == <<-1, 0>>
NaN == <<0, 0>>
IsFinite(a) == a[2] # 0

\* numpy float64 division: no exception, inf or nan on a zero divisor
NpDivide(a, b) ==
    IF b[1] = 0
    THEN (IF a[1] = 0 THEN NaN ELSE IF a[1] > 0 THEN Inf ELSE NegInf)
    ELSE RNorm(a[1] * b[2], a[2] * b[1])

\* ------------------------------------------------------------------ text
TEMPERATURE_MARKER == "TEMPERATURE/K:"
TENSOR_MARKER == <<"Tensor", "in", "molecular", "frame">>

\* float(token) for the tokens float() accepts; any other token is a ValueError
FloatOf ==
    ("0" :> 0) @@ ("1" :> 1) @@ ("2" :> 2) @@ ("3" :> 3) @@ ("2.0" :> 2)
    @@ ("-1" :> -1)

IsFloat(tok) == tok \in DOMAIN FloatOf

\* "TEMPERATURE/K:" in line
HasTemperatureMarker(line) ==
    \E p \in 1..Len(line) : line[p] = TEMPERATURE_MARKER

\* "Tensor in molecular frame" in line
HasTensorMarker(line) ==
    \E p \in 1..(Len(line) - 3) : SubSeq(line, p, p + 3) = TENSOR_MARKER

TempLine(tok) == <<TEMPERATURE_MARKER, tok>>
MarkerLine == TENSOR_MARKER

RowsA == << <<"1", "0", "0">>, <<"0", "2", "0">>, <<"0", "0", "3">> >>
RowsB == << <<"0", "0", "0">>, <<"0", "1", "0">>, <<"0", "0", "3">> >>
RowsZ == << <<"0", "0", "0">>, <<"0", "0", "0">>, <<"0", "0", "0">> >>
Rows2Col == << <<"1", "0">>, <<"0", "2">>, <<"0", "0">> >>
RowsRagged == << <<"1", "0", "0">>, <<>>, <<"0", "0", "3", "0">> >>

\* a line holding both markers, the temperature last
BothLine(tok) == TENSOR_MARKER \o <<"at", TEMPERATURE_MARKER, tok>>

Section(tok, rows) == <<TempLine(tok), MarkerLine>> \o rows
Block(rows) == <<MarkerLine>> \o rows

Segments ==
    { Section("1", RowsA), Section("2", RowsB), Section("1", RowsZ),
      Section("0", RowsA),
      Block(RowsA), Block(RowsZ), Block(Rows2Col), Block(RowsRagged),
      <<BothLine("2")>> \o RowsA,
      <<TempLine("2.0")>>, <<TempLine("n/a")>>,
      <<MarkerLine>>, << <<"0", "0", "0">> >> }

RECURSIVE TextsOf(_)
TextsOf(n) ==
    IF n = 0 THEN { <<>> }
    ELSE LET P == TextsOf(n - 1)
         IN  P \cup { p \o s : p \in P, s \in Segments }

Texts == TextsOf(MaxSegs)

\* the bounds main() may ask for
RangeBounds == {0, 1, 2}

\* ------------------------------------------------------------------ values
\* A dict key: None, or a float (2.0 and 2 are the same key).
NoneKey == [isNone |-> TRUE, v |-> 0]
FloatKey(x) == [isNone |-> FALSE, v |-> x]

NoExc == [type |-> "", line |-> 0]
Raise(type, line) == [type |-> type, line |-> line]

\* mutant of InitialTemp: the scan starts at a numeric default
InitialTempZero == FloatKey(0)

\* current_temp = None
InitialTemp == NoneKey

\* mutant of DictSet: the first tensor stored under a key stays
DictSetKeepFirst(d, key, val) ==
    IF \E p \in 1..Len(d) : d[p].key = key
    THEN d
    ELSE Append(d, [key |-> key, val |-> val])

\* mutant of DictSet: an overwritten key moves to the end
DictSetMoveToEnd(d, key, val) ==
    Append(SelectSeq(d, LAMBDA e : e.key # key), [key |-> key, val |-> val])

\* tensors[key] = val on a dict kept in insertion order: an existing key keeps
\* its position and takes the new value, a new key goes to the end
DictSet(d, key, val) ==
    IF \E p \in 1..Len(d) : d[p].key = key
    THEN [p \in 1..Len(d) |-> IF d[p].key = key THEN [key |-> key, val |-> val] ELSE d[p]]
    ELSE Append(d, [key |-> key, val |-> val])

DictKeys(d) == [p \in 1..Len(d) |-> d[p].key]

\* [float(x) for x in lines[i + 1 + j].split()], j = jj - 1
ReadRow(ls, idx, jj) ==
    IF idx + jj > Len(ls)
    THEN [exc |-> Raise("IndexError", 19), row |-> <<>>]
    ELSE LET toks == ls[idx + jj]
         IN  IF \E p \in 1..Len(toks) : ~IsFloat(toks[p])
             THEN [exc |-> Raise("ValueError", 19), row |-> <<>>]
             ELSE [exc |-> NoExc, row |-> [p \in 1..Len(toks) |-> FloatOf[toks[p]]]]

\* the loop over j in range(3): the first row that fails ends it
ReadRows(ls, idx) ==
    LET r1 == ReadRow(ls, idx, 1)
        r2 == ReadRow(ls, idx, 2)
        r3 == ReadRow(ls, idx, 3)
    IN  IF r1.exc # NoExc THEN [exc |-> r1.exc, rows |-> <<>>]
        ELSE IF r2.exc # NoExc THEN [exc |-> r2.exc, rows |-> <<>>]
        ELSE IF r3.exc # NoExc THEN [exc |-> r3.exc, rows |-> <<>>]
        ELSE [exc |-> NoExc, rows |-> <<r1.row, r2.row, r3.row>>]

\* np.array(tensor): rows of one length give a float64 array of that shape;
\* rows of different lengths are a ValueError in numpy >= 1.24 (strict) and
\* an object array of three lists before
NpArray(rows, strict) ==
    IF \A p \in 1..Len(rows) : Len(rows[p]) = Len(rows[1])
    THEN [exc |-> NoExc, val |-> [dtype |-> "float64", rows |-> rows]]
    ELSE IF strict
         THEN [exc |-> Raise("ValueError", 20), val |-> [dtype |-> "object", rows |-> <<>>]]
         ELSE [exc |-> NoExc, val |-> [dtype |-> "object", rows |-> rows]]

\* mutant of ScanTemperature: a token that is no number is skipped
ScanTemperatureLenient(line, ct) ==
    IF HasTemperatureMarker(line) /\ IsFloat(line[Len(line)])
    THEN [exc |-> NoExc, current_temp |-> FloatKey(FloatOf[line[Len(line)]])]
    ELSE [exc |-> NoExc, current_temp |-> ct]

\* line 13-14: the temperature marker
ScanTemperature(line, ct) ==
    IF HasTemperatureMarker(line)
    THEN LET tok == line[Len(line)]
         IN  IF IsFloat(tok)
             THEN [exc |-> NoExc, current_temp |-> FloatKey(FloatOf[tok])]
             ELSE [exc |-> Raise("ValueError", 14), current_temp |-> ct]
    ELSE [exc |-> NoExc, current_temp |-> ct]

\* line 15-20: the tensor marker
ScanTensor(ls, idx, ct, ts, strict) ==
    IF HasTensorMarker(ls[idx])
    THEN LET r == ReadRows(ls, idx)
             a == NpArray(r.rows, strict)
         IN  IF r.exc # NoExc THEN [exc |-> r.exc, tensors |-> ts]
             ELSE IF a.exc # NoExc THEN [exc |-> a.exc, tensors |-> ts]
             ELSE [exc |-> NoExc, tensors |-> DictSet(ts, ct, a.val)]
    ELSE [exc |-> NoExc, tensors |-> ts]

\* one iteration of the loop of parse_orca_output, on line idx
ParseStep(ls, idx, ct, ts, strict) ==
    LET t == ScanTemperature(ls[idx], ct)
        b == ScanTensor(ls, idx, t.current_temp, ts, strict)
    IN  IF t.exc # NoExc
        THEN [exc |-> t.exc, current_temp |-> ct, tensors |-> ts]
        ELSE [exc |-> b.exc, current_temp |-> t.current_temp, tensors |-> b.tensors]

\* ------------------------------------------------------------------ calculator
\* 4 * np.pi * 1e24 and avogadro_number, both in units of 6.02214129e21, to
\* four digits: 4*pi*1e24 / 6.02214129e23 = 20.87
FOUR_PI_E24 == 2087
avogadro_number == 100

\* x * 1e-30, kept as the decimal exponent
TimesE30(x) == [m |-> x, e10 |-> -30]

\* mutant of ConvertChiTensor: a zero temperature leaves the tensor unscaled
ConvertChiTensorGuarded(chi_tensor, temperature) ==
    IF chi_tensor.dtype = "object"
    THEN [exc |-> Raise("TypeError", 28), val |-> <<>>]
    ELSE LET factor == IF avogadro_number * temperature = 0 THEN RInt(1)
                       ELSE RNorm(FOUR_PI_E24, avogadro_number * temperature)
         IN  [exc |-> NoExc,
              val |-> [r \in 1..Len(chi_tensor.rows) |->
                        [c \in 1..Len(chi_tensor.rows[r]) |->
                            RMul(RInt(chi_tensor.rows[r][c]), factor)]]]

\* convert_chi_tensor: the factor is a Python float division, which raises on
\* a zero divisor; an object array times a float multiplies a list by a float
ConvertChiTensor(chi_tensor, temperature) ==
    IF avogadro_number * temperature = 0
    THEN [exc |-> Raise("ZeroDivisionError", 27), val |-> <<>>]
    ELSE IF chi_tensor.dtype = "object"
    THEN [exc |-> Raise("TypeError", 28), val |-> <<>>]
    ELSE LET factor == RNorm(FOUR_PI_E24, avogadro_number * temperature)
         IN  [exc |-> NoExc,
              val |-> [r \in 1..Len(chi_tensor.rows) |->
                        [c \in 1..Len(chi_tensor.rows[r]) |->
                            RMul(RInt(chi_tensor.rows[r][c]), factor)]]]

\* np.trace of a 3 x cols array: the sum of the diagonal it has
RECURSIVE DiagSum(_, _)
DiagSum(m, n) == IF n = 0 THEN RInt(0) ELSE RAdd(DiagSum(m, n - 1), m[n][n])

NpTrace(m) == DiagSum(m, IF Len(m[1]) < Len(m) THEN Len(m[1]) ELSE Len(m))

\* calculate_traceless_tensor: chi_tensor - np.eye(3) * trace broadcasts a
\* 3 x cols array against a 3 x 3 one, which needs cols = 3 or cols = 1
CalculateTracelessTensor(chi_tensor) ==
    LET cols == Len(chi_tensor[1])
        trace == RMul(NpTrace(chi_tensor), <<1, 3>>)
    IN  IF cols \notin {1, 3}
        THEN [exc |-> Raise("ValueError", 33), val |-> <<>>]
        ELSE [exc |-> NoExc,
              val |-> [r \in 1..3 |-> [c \in 1..3 |->
                         RSub(chi_tensor[r][IF cols = 1 THEN 1 ELSE c],
                              IF r = c THEN trace ELSE RInt(0))]]]

\* a stable insertion sort of the indices of keys (numpy sorts arrays of fewer
\* than 17 elements by insertion)
InsertIndex(sorted, j, keys) ==
    LET p == Cardinality({q \in 1..Len(sorted) : ~RLess(keys[j], keys[sorted[q]])})
    IN  SubSeq(sorted, 1, p) \o <<j>> \o SubSeq(sorted, p + 1, Len(sorted))

RECURSIVE ArgsortUpTo(_, _)
ArgsortUpTo(keys, n) ==
    IF n = 0 THEN <<>> ELSE InsertIndex(ArgsortUpTo(keys, n - 1), n, keys)

\* np.argsort(keys)
Argsort(keys) == ArgsortUpTo(keys, Len(keys))

Take(vals, idx) == [p \in 1..Len(idx) |-> vals[idx[p]]]

\* np.linalg.eigh: the eigenvalues, ascending, of the symmetric matrix whose
\* lower triangle is m's. Given for the matrices whose third row is
\* (0, 0, f) and whose leading 2 x 2 block is diagonal or has equal diagonal
\* entries, the ones with rational eigenvalues that the model feeds it.
Eigh(m) ==
    LET ev == CASE m[2][1][1] = 0 /\ m[3][1][1] = 0 /\ m[3][2][1] = 0 ->
                     <<m[1][1], m[2][2], m[3][3]>>
                [] m[2][1][1] # 0 /\ m[3][1][1] = 0 /\ m[3][2][1] = 0
                   /\ m[1][1] = m[2][2] ->
                     <<RSub(m[1][1], m[2][1]), RAdd(m[1][1], m[2][1]), m[3][3]>>
    IN  Take(ev, Argsort(ev))

\* mutant of MehringOrder: the sort is by value, not by absolute value
MehringOrderSigned(eigvals) == Take(eigvals, Argsort(eigvals))

\* idx = np.argsort(np.abs(eigvals)); eigvals = eigvals[idx]
MehringOrder(eigvals) ==
    Take(eigvals, Argsort([p \in 1..Len(eigvals) |-> RAbs(eigvals[p])]))

\* rh_rel = abs((eigvals[0] - eigvals[1]) / eigvals[0]), on numpy floats
RelativeRhombicity(eigvals) ==
    RAbs(NpDivide(RSub(eigvals[1], eigvals[2]), eigvals[1]))

\* calculate_eigenvalues
CalculateEigenvalues(chi_tensor) ==
    LET t == CalculateTracelessTensor(chi_tensor)
        eigvals == MehringOrder(Eigh(t.val))
    IN  IF t.exc # NoExc
        THEN [exc |-> t.exc, val |-> <<>>]
        ELSE [exc |-> NoExc,
              val |-> [traceless_tensor |-> t.val,
                       eigvals |-> eigvals,
                       ax1 |-> RMul(RMul(RInt(3), eigvals[3]), <<1, 2>>),
                       rh1 |-> RMul(RSub(eigvals[1], eigvals[2]), <<1, 2>>),
                       ax2 |-> RSub(eigvals[3],
                                    RMul(RAdd(eigvals[1], eigvals[2]), <<1, 2>>)),
                       rh2 |-> RSub(eigvals[1], eigvals[2]),
                       rh_rel |-> RelativeRhombicity(eigvals),
                       iso |-> TimesE30(RMul(NpTrace(chi_tensor), <<1, 3>>))]]

\* ------------------------------------------------------------------ process
\* mutant of InRange: the bounds are excluded
InRangeExclusive(lo, temp, hi) == lo < temp /\ temp < hi

\* min_temp <= temp <= max_temp on floats
InRange(lo, temp, hi) == lo <= temp /\ temp <= hi

\* mutant of RangeTest: a None key is out of every range
RangeTestSkipNone(lo, key, hi) ==
    [exc |-> NoExc, ok |-> ~key.isNone /\ InRange(lo, key.v, hi)]

\* if min_temp <= temp <= max_temp, temp a key of the dict: comparing a float
\* with None is a TypeError
RangeTest(lo, key, hi) ==
    IF key.isNone
    THEN [exc |-> Raise("TypeError", 71), ok |-> FALSE]
    ELSE [exc |-> NoExc, ok |-> InRange(lo, key.v, hi)]

\* one iteration of the loop of process_orca_file, on item (temp, chi_tensor)
ProcessStep(item, lo, hi, res) ==
    IF RangeTest(lo, item.key, hi).exc # NoExc
    THEN [exc |-> RangeTest(lo, item.key, hi).exc, results |-> res]
    ELSE IF ~RangeTest(lo, item.key, hi).ok
    THEN [exc |-> NoExc, results |-> res]
    ELSE LET temp == item.key.v
             conv == ConvertChiTensor(item.val, temp)
             calc == CalculateEigenvalues(conv.val)
         IN  IF conv.exc # NoExc THEN [exc |-> conv.exc, results |-> res]
             ELSE IF calc.exc # NoExc THEN [exc |-> calc.exc, results |-> res]
             ELSE [exc |-> NoExc,
                   results |-> Append(res,
                       [temp |-> temp,
                        traceless_tensor |-> calc.val.traceless_tensor,
                        eigvals |-> calc.val.eigvals,
                        ax1 |-> TimesE30(calc.val.ax1),
                        rh1 |-> TimesE30(calc.val.rh1),
                        ax2 |-> TimesE30(calc.val.ax2),
                        rh2 |-> TimesE30(calc.val.rh2),
                        rh_rel |-> calc.val.rh_rel,
                        iso |-> calc.val.iso])]

\* ------------------------------------------------------------------ actions
Init ==
    /\ file \in Texts
    /\ lines = <<>>
    /\ i = 0
    /\ current_temp = NoneKey
    /\ tensors = <<>>
    /\ proc_tensors = <<>>
    /\ min_temp = 0
    /\ max_temp = 0
    /\ results = <<>>
    /\ k = 0
    /\ returned = <<>>
    /\ exc = NoExc
    /\ pc = "call"

\* process_orca_file calls parse_orca_output, which reads the file
ReadLines ==
    /\ pc = "call"
    /\ lines' = file
    /\ tensors' = <<>>
    /\ current_temp' = InitialTemp
    /\ i' = 1
    /\ pc' = "parse_loop"
    /\ UNCHANGED <<file, proc_tensors, min_temp, max_temp, results, k, returned, exc>>

\* one iteration of for i, line in enumerate(lines)
ParseLine ==
    /\ pc = "parse_loop"
    /\ i <= Len(lines)
    /\ \E strict \in BOOLEAN :
         LET s == ParseStep(lines, i, current_temp, tensors, strict)
         IN  /\ current_temp' = s.current_temp
             /\ tensors' = s.tensors
             /\ exc' = s.exc
             /\ i' = IF s.exc = NoExc THEN i + 1 ELSE i
             /\ pc' = IF s.exc = NoExc THEN "parse_loop" ELSE "raised"
    /\ UNCHANGED <<file, lines, proc_tensors, min_temp, max_temp, results, k, returned>>

\* return tensors, into process_orca_file, which starts its loop. The range
\* is an argument of process_orca_file that nothing reads before line 71, so
\* it is chosen here.
ParseReturn ==
    /\ pc = "parse_loop"
    /\ i > Len(lines)
    /\ proc_tensors' = <<tensors>>
    /\ results' = <<>>
    /\ k' = 1
    /\ \E lo \in RangeBounds, hi \in RangeBounds :
         min_temp' = lo /\ max_temp' = hi
    /\ pc' = "proc_loop"
    /\ UNCHANGED <<file, lines, i, current_temp, tensors, returned, exc>>

\* one iteration of for temp, chi_tensor in tensors.items()
ProcessItem ==
    /\ pc = "proc_loop"
    /\ k <= Len(proc_tensors[1])
    /\ LET s == ProcessStep(proc_tensors[1][k], min_temp, max_temp, results)
       IN  /\ results' = s.results
           /\ exc' = s.exc
           /\ k' = IF s.exc = NoExc THEN k + 1 ELSE k
           /\ pc' = IF s.exc = NoExc THEN "proc_loop" ELSE "raised"
    /\ UNCHANGED <<file, lines, i, current_temp, tensors, proc_tensors,
                   min_temp, max_temp, returned>>

\* return results
ProcessReturn ==
    /\ pc = "proc_loop"
    /\ k > Len(proc_tensors[1])
    /\ returned' = <<results>>
    /\ pc' = "returned"
    /\ UNCHANGED <<file, lines, i, current_temp, tensors, proc_tensors,
                   min_temp, max_temp, results, k, exc>>

Next == ReadLines \/ ParseLine \/ ParseReturn \/ ProcessItem \/ ProcessReturn

Spec == Init /\ [][Next]_vars

\* ------------------------------------------------------------------ calculator runs
\* Reports of one section, over the tensors Eigh is given for: the diagonal
\* ones and the ones with a symmetric leading block.
CalcTokens == {"-1", "0", "1", "2"}

DiagRows(a, b, c) == << <<a, "0", "0">>, <<"0", b, "0">>, <<"0", "0", c>> >>
BlockRows(a, b, f) == << <<a, b, "0">>, <<b, a, "0">>, <<"0", "0", f>> >>

CalcTensors ==
    { DiagRows(a, b, c) : a \in CalcTokens, b \in CalcTokens, c \in CalcTokens }
    \cup { BlockRows(a, b, f) : a \in CalcTokens, b \in CalcTokens \ {"0"}, f \in CalcTokens }

InitCalc ==
    /\ file \in { Section(tok, rows) : tok \in {"1", "2"}, rows \in CalcTensors }
    /\ lines = <<>>
    /\ i = 0
    /\ current_temp = NoneKey
    /\ tensors = <<>>
    /\ proc_tensors = <<>>
    /\ min_temp = 0
    /\ max_temp = 0
    /\ results = <<>>
    /\ k = 0
    /\ returned = <<>>
    /\ exc = NoExc
    /\ pc = "call"

SpecCalc == InitCalc /\ [][Next]_vars

\* ------------------------------------------------------------------ the text, read declaratively
SetMax(S) == CHOOSE x \in S : \A y \in S : y <= x
SetMin(S) == CHOOSE x \in S : \A y \in S : x <= y

MarkerIdx(f) == {p \in 1..Len(f) : HasTensorMarker(f[p])}
TempIdx(f) == {p \in 1..Len(f) : HasTemperatureMarker(f[p])}

\* the temperature in force at line p: that of the last temperature line at
\* or before p, None when there is none
TempAt(f, p) ==
    LET S == {q \in TempIdx(f) : q <= p}
    IN  IF S = {} THEN NoneKey
        ELSE FloatKey(FloatOf[f[SetMax(S)][Len(f[SetMax(S)])]])

\* the three lines after line p, as numbers
RowsAfter(f, p) == [r \in 1..3 |-> [c \in 1..Len(f[p + r]) |-> FloatOf[f[p + r][c]]]]

MarkersOf(f, key) == {m \in MarkerIdx(f) : TempAt(f, m) = key}

\* the tensor marker lines with no temperature line at or before them
EarlyMarkers(f) == {m \in MarkerIdx(f) : \A q \in TempIdx(f) : q > m}

\* a temperature line whose last token is no number, or a tensor marker with
\* fewer than three lines after it or a token that is no number among them
MalformedText(f) ==
    \/ \E p \in TempIdx(f) : ~IsFloat(f[p][Len(f[p])])
    \/ \E p \in MarkerIdx(f) :
          \/ p + 3 > Len(f)
          \/ \E r \in 1..3 : \E c \in 1..Len(f[p + r]) : ~IsFloat(f[p + r][c])

\* the loop of parse_orca_output has ended: tensors is what line 22 returns
ParseDone == pc = "parse_loop" /\ i > Len(lines)

\* parse_orca_output has returned into process_orca_file
ParseCompleted == proc_tensors # <<>>

\* ------------------------------------------------------------------ claims
\* C1: when parse_orca_output completes, the mapping it returns is the
\* left-to-right fold of the text: its keys are unique and are exactly the
\* temperatures in force at some tensor marker line, and the value under a
\* key is the three rows after the LAST marker line scanned under it; a
\* temperature with no marker under it is no key. The caller receives that
\* mapping.
C1_FoldMapping ==
    /\ ParseDone =>
          LET d == tensors
          IN  /\ \A p, q \in 1..Len(d) : d[p].key = d[q].key => p = q
              /\ {d[p].key : p \in 1..Len(d)} = {TempAt(file, m) : m \in MarkerIdx(file)}
              /\ \A p \in 1..Len(d) :
                   d[p].val.rows = RowsAfter(file, SetMax(MarkersOf(file, d[p].key)))
    /\ ParseCompleted => proc_tensors[1] = tensors

\* C1 witness: a completed parse of a text in which one temperature has two
\* tensor blocks with different rows and another temperature line has none.
C1_Witness ==
    /\ ParseCompleted
    /\ \E m1, m2 \in MarkerIdx(file) :
         /\ m1 < m2
         /\ ~TempAt(file, m1).isNone
         /\ TempAt(file, m1) = TempAt(file, m2)
         /\ RowsAfter(file, m1) # RowsAfter(file, m2)
    /\ \E t \in TempIdx(file) : MarkersOf(file, TempAt(file, t)) = {}

\* C2 (as claimed): a completed parse never holds an array whose rows do not
\* have exactly 3 columns; three rows of 2 tokens each would be a parse error.
C2_OnlyThreeColumns ==
    ParseCompleted =>
        \A p \in 1..Len(proc_tensors[1]) :
            LET a == proc_tensors[1][p].val
            IN  a.dtype = "float64" => \A r \in 1..Len(a.rows) : Len(a.rows[r]) = 3

\* C3: the temperatures of the returned records are exactly the keys of the
\* mapping with min_temp <= T <= max_temp, one record each; with
\* min_temp > max_temp the list is empty.
C3_RangeFilter ==
    pc = "returned" =>
        LET d == proc_tensors[1]
            res == returned[1]
            inr == {p \in 1..Len(d) : min_temp <= d[p].key.v /\ d[p].key.v <= max_temp}
        IN  /\ {res[p].temp : p \in 1..Len(res)} = {d[p].key.v : p \in inr}
            /\ Len(res) = Cardinality(inr)
            /\ \A p \in 1..Len(res) : min_temp <= res[p].temp /\ res[p].temp <= max_temp
            /\ min_temp > max_temp => res = <<>>

\* C3 witness: a returned list holding a record at a bound of the range while
\* another key of the mapping is left out.
C3_Witness ==
    /\ pc = "returned"
    /\ \E p \in 1..Len(returned[1]) : returned[1][p].temp = max_temp
    /\ Len(returned[1]) < Len(proc_tensors[1])

\* C4: while no temperature line has been scanned current_temp is None, and a
\* completed parse of a text with a tensor marker before its first temperature
\* line has the None key first, holding the rows of the last such marker.
C4_NoneKey ==
    /\ (pc = "parse_loop" /\ current_temp # NoneKey) =>
          \E q \in 1..(i - 1) : HasTemperatureMarker(lines[q])
    /\ (ParseDone /\ EarlyMarkers(file) # {}) =>
          /\ tensors[1].key.isNone
          /\ tensors[1].val.rows = RowsAfter(file, SetMax(EarlyMarkers(file)))
          /\ \A p \in 2..Len(tensors) : ~tensors[p].key.isNone
    /\ (pc = "proc_loop" /\ k = 1) => proc_tensors[1] = tensors

\* C4 witness: a completed parse with two different tensor blocks before the
\* first temperature line.
C4_Witness ==
    /\ ParseCompleted
    /\ \E m1, m2 \in EarlyMarkers(file) :
         m1 < m2 /\ RowsAfter(file, m1) # RowsAfter(file, m2)

\* C5: a call that raises hands nothing over: a text with a malformed
\* temperature line or a malformed or truncated tensor block gives the caller
\* no mapping and no list, whatever parsed before it; an exception in the
\* computation of an in-range record gives no list, whatever was computed.
C5_Atomic ==
    /\ pc = "raised" => returned = <<>>
    /\ (pc = "raised" /\ exc.line <= 22) => proc_tensors = <<>>
    /\ ParseDone => ~MalformedText(file)
    /\ (proc_tensors # <<>> \/ returned # <<>> \/ pc = "returned") =>
          (i > Len(lines) /\ lines = file /\ exc.line \notin {14, 19, 20})
    /\ (ParseCompleted /\ \E p \in 1..Len(proc_tensors[1]) :
            LET e == proc_tensors[1][p]
            IN  /\ ~e.key.isNone
                /\ min_temp <= e.key.v /\ e.key.v <= max_temp
                /\ (e.key.v = 0 \/ e.val.dtype = "object" \/ Len(e.val.rows[1]) \notin {1, 3}))
         => returned = <<>>

\* C5 witness: the parse raised on a temperature line after a tensor block
\* had been stored.
C5_Witness ==
    /\ pc = "raised"
    /\ exc = Raise("ValueError", 14)
    /\ tensors # <<>>

\* C6: a mapping entry with key 0 inside the range ends the call with the
\* division by zero of convert_chi_tensor (line 27): the loop never gets past
\* such an entry, no record of temperature 0 is ever appended, and every
\* entry of every traceless tensor in a record is finite.
C6_ZeroTemperatureRaises ==
    /\ \A p \in 1..Len(results) :
          /\ results[p].temp # 0
          /\ \A r \in 1..3 : \A c \in 1..3 : IsFinite(results[p].traceless_tensor[r][c])
    /\ ParseCompleted =>
          \A p \in 1..Len(proc_tensors[1]) :
             LET key == proc_tensors[1][p].key
             IN  (~key.isNone /\ key.v = 0 /\ min_temp <= 0 /\ 0 <= max_temp) =>
                     /\ k <= p
                     /\ (pc = "raised" /\ k = p) => exc = Raise("ZeroDivisionError", 27)
                     /\ pc # "returned"

\* C6 witness: the call raised ZeroDivisionError on a key 0 after a record
\* had been computed for an earlier key.
C6_Witness ==
    /\ pc = "raised"
    /\ exc = Raise("ZeroDivisionError", 27)
    /\ proc_tensors[1][k].key.v = 0
    /\ results # <<>>

IsPermutation(s, t) ==
    /\ Len(s) = Len(t)
    /\ \A x \in {s[p] : p \in 1..Len(s)} \cup {t[p] : p \in 1..Len(t)} :
          Cardinality({p \in 1..Len(s) : s[p] = x}) = Cardinality({p \in 1..Len(t) : t[p] = x})

\* C7: in every record the eigenvalue triple is a permutation of the
\* eigenvalues of the record's traceless tensor with |l0| <= |l1| <= |l2|,
\* axiality 1 is 3/2 of l2, rhombicity 1 is (l0 - l1)/2 and rhombicity 2 is
\* l0 - l1, each times 1e-30.
C7_MehringOrder ==
    \A p \in 1..Len(results) :
        LET rec == results[p]
            l == rec.eigvals
        IN  /\ IsPermutation(l, Eigh(rec.traceless_tensor))
            /\ ~RLess(RAbs(l[2]), RAbs(l[1]))
            /\ ~RLess(RAbs(l[3]), RAbs(l[2]))
            /\ rec.ax1 = TimesE30(RMul(l[3], <<3, 2>>))
            /\ rec.rh1 = TimesE30(RMul(RSub(l[1], l[2]), <<1, 2>>))
            /\ rec.rh2 = TimesE30(RSub(l[1], l[2]))

\* C7 witness: a record whose eigenvalues have mixed signs and are not in
\* ascending order, two of them equal in absolute value.
C7_Witness ==
    \E p \in 1..Len(results) :
        LET l == results[p].eigvals
        IN  /\ RLess(l[2], l[1])
            /\ RLess(l[2], RInt(0)) /\ RLess(RInt(0), l[3])
            /\ RAbs(l[2]) = RAbs(l[3])

\* the key test of the range filter, as the loop applies it to a sequence
KeyInRange(key) == min_temp <= key.v /\ key.v <= max_temp

\* C8: the keys of the mapping stand in the order of the first tensor marker
\* scanned under each, and the returned records follow that order restricted
\* to the keys in range; a later block under a key does not move it.
C8_InsertionOrder ==
    /\ ParseDone =>
          \A p, q \in 1..Len(tensors) :
             p < q => SetMin(MarkersOf(file, tensors[p].key))
                         < SetMin(MarkersOf(file, tensors[q].key))
    /\ pc = "returned" => proc_tensors[1] = tensors
    /\ pc = "returned" =>
          [p \in 1..Len(returned[1]) |-> FloatKey(returned[1][p].temp)]
             = SelectSeq(DictKeys(proc_tensors[1]), KeyInRange)

\* C8 witness: two records returned, the first for a temperature that has a
\* second tensor block after the first block of the second temperature.
C8_Witness ==
    /\ pc = "returned"
    /\ Len(returned[1]) = 2
    /\ \E m \in MarkersOf(file, FloatKey(returned[1][1].temp)) :
          m > SetMin(MarkersOf(file, FloatKey(returned[1][2].temp)))

\* C9 (as claimed): in every returned record whose smallest-magnitude
\* eigenvalue is 0 the relative rhombicity is infinite, never not-a-number.
C9_ZeroEigenvalueIsInfinite ==
    pc = "returned" =>
        \A p \in 1..Len(returned[1]) :
            returned[1][p].eigvals[1] = RInt(0) => returned[1][p].rh_rel = Inf

\* C10: a text with a tensor marker before its first temperature line makes
\* every call fail with nothing returned and no record appended: if its parse
\* reaches the return the None key is the first item of the mapping, nothing
\* is returned or appended before the parse returns, and a mapping whose
\* first key is None keeps the loop at its first iteration, where the range
\* comparison (line 71) raises TypeError, for every range.
C10_NoneKeyFailsFirst ==
    /\ (ParseDone /\ EarlyMarkers(file) # {}) => (tensors # <<>> /\ tensors[1].key = NoneKey)
    /\ ~ParseCompleted => (pc # "returned" /\ returned = <<>> /\ results = <<>>)
    /\ (ParseCompleted /\ proc_tensors[1] # <<>> /\ proc_tensors[1][1].key = NoneKey) =>
          /\ pc # "returned"
          /\ returned = <<>>
          /\ results = <<>>
          /\ k = 1
          /\ pc = "raised" => exc = Raise("TypeError", 71)

\* C10 witness: the call raised in the range comparison of the first item
\* although a later key of the mapping is a temperature inside the range.
C10_Witness ==
    /\ pc = "raised"
    /\ exc = Raise("TypeError", 71)
    /\ \E p \in 2..Len(proc_tensors[1]) :
          LET key == proc_tensors[1][p].key
          IN  key.v # 0 /\ min_temp <= key.v /\ key.v <= max_temp

====
